---- MODULE Spec2Model ----
(***************************************************************************)
(* Phoenix Boutique: the offline-first order store and its upload-only     *)
(* synchronisation.  The model covers the order repository (IndexedDB      *)
(* read-merge-write), the sync orchestrator syncOrders with its per-order  *)
(* suspension points, the screens that write orders, and the React hooks   *)
(* that decide when a sync pass starts.                                    *)
(*                                                                         *)
(* Orders are JavaScript objects: a TLA+ function from key names to        *)
(* values.  A key that is not in the DOMAIN is `undefined`.  Nullable      *)
(* identifiers and timestamps are integers with 0 for null (both are       *)
(* falsy in the source).                                                   *)
(***************************************************************************)
EXTENDS Integers, Sequences, FiniteSets, TLC

\* ---------------------------------------------------------------- bounds
MaxOrders == 1
BatchSize == 2
MaxImages == 2
MaxRemote == 2
MaxTime == 1
MaxHistory == 1
\* transactions on 'orders' that can be pending at once
MaxTxs == 2
\* payment updates one order receives through interleaved calls
MaxPayments == 2

\* ------------------------------------------------------ program constants
THROTTLE_MS == 5000
INITIAL_DELAY_MS == 1000
\* Date.now() at application start: any epoch value, far above the throttle
EPOCH_MS == 10000
\* the version initDb opens the database at
DB_VERSION == 5
\* a stored value v that is not numeric: Number(v) is NaN
NotANumber == -1000

Ids == (1..MaxOrders) \cup (1..BatchSize)
Slots == {1, 2}
Roles == {"STAFF", "ADMIN"}
\* what the customer-name input can hold: a name, or only white space
Names == {"Asha", " "}
Null == 0

FinancialKeys == {"priceTotal", "advancePaid", "balanceAmount", "paymentStatus", "paymentMethod"}

\* ------------------------------------------------------- object helpers
\* { ...a, ...b }
Spread(a, b) ==
  [k \in (DOMAIN a) \cup (DOMAIN b) |-> IF k \in DOMAIN b THEN b[k] ELSE a[k]]

Has(o, k) == k \in DOMAIN o

\* rest-destructuring: the object without the named keys
Omit(o, ks) == [k \in (DOMAIN o) \ ks |-> o[k]]

Max(a, b) == IF a >= b THEN a ELSE b

\* String.prototype.trim on the strings of Names
Trim(str) == IF str \in {"", " "} THEN "" ELSE str

\* ------------------------------------------------ paymentCalculations
calculateBalance(priceTotal, advancePaid) == Max(0, priceTotal - advancePaid)

derivePaymentStatus(priceTotal, advancePaid) ==
  IF priceTotal = 0 \/ advancePaid = 0 THEN "Unpaid"
  ELSE IF advancePaid >= priceTotal THEN "Paid"
  ELSE "Partial"

validatePricing(priceTotal, advancePaid) ==
  [priceTotalError |-> priceTotal < 0,
   advancePaidError |-> (advancePaid < 0) \/ (advancePaid > priceTotal)]

\* ------------------------------------------------------ ordersRepository
validPaymentMethods == {"Cash", "UPI", "Card", "Other"}

\* Number(order[k]) || 0: undefined and non-numeric values give NaN, so 0
NumberOrZero(order, k) ==
  IF Has(order, k) /\ order[k] # NotANumber THEN order[k] ELSE 0

\* the object normalizeOrder returns, given the amounts it computed
normalizedOrder(order, priceTotal, advancePaid, balanceAmount, paymentStatus) ==
  LET paymentMethod ==
        IF Has(order, "paymentMethod") /\ order.paymentMethod \in validPaymentMethods
        THEN order.paymentMethod ELSE "Cash"
  IN Spread(order,
       [priceTotal |-> priceTotal,
        advancePaid |-> advancePaid,
        balanceAmount |-> balanceAmount,
        paymentStatus |-> paymentStatus,
        paymentMethod |-> paymentMethod,
        notes |-> IF Has(order, "notes") THEN order.notes ELSE "",
        paymentHistory |-> IF Has(order, "paymentHistory") THEN order.paymentHistory ELSE <<>>,
        cloudId |-> IF Has(order, "cloudId") THEN order.cloudId ELSE Null,
        syncStatus |-> IF Has(order, "syncStatus") THEN order.syncStatus ELSE "pending",
        lastSyncedAt |-> IF Has(order, "lastSyncedAt") THEN order.lastSyncedAt ELSE Null,
        remoteId |-> IF Has(order, "remoteId") THEN order.remoteId ELSE Null,
        syncState |-> IF Has(order, "syncState") THEN order.syncState ELSE "pending",
        imageStorageUrls |-> IF Has(order, "imageStorageUrls") THEN order.imageStorageUrls ELSE <<>>])

\* a normalizeOrder that keeps a stored paymentStatus
normalizeOrder_trustsStoredStatus(order) ==
  LET priceTotal == Max(0, NumberOrZero(order, "priceTotal"))
      advancePaid == Max(0, NumberOrZero(order, "advancePaid"))
  IN normalizedOrder(order, priceTotal, advancePaid, Max(0, priceTotal - advancePaid),
       IF Has(order, "paymentStatus") THEN order.paymentStatus
       ELSE derivePaymentStatus(priceTotal, advancePaid))

\* a normalizeOrder that computes the balance from the unclamped amounts
normalizeOrder_unclampedBalance(order) ==
  LET priceTotal == Max(0, NumberOrZero(order, "priceTotal"))
      advancePaid == Max(0, NumberOrZero(order, "advancePaid"))
  IN normalizedOrder(order, priceTotal, advancePaid,
       NumberOrZero(order, "priceTotal") - NumberOrZero(order, "advancePaid"),
       derivePaymentStatus(priceTotal, advancePaid))

normalizeOrder(order) ==
  LET priceTotal == Max(0, NumberOrZero(order, "priceTotal"))
      advancePaid == Max(0, NumberOrZero(order, "advancePaid"))
      balanceAmount == Max(0, priceTotal - advancePaid)
      paymentStatus ==
        IF priceTotal = 0 \/ advancePaid = 0 THEN "Unpaid"
        ELSE IF advancePaid >= priceTotal THEN "Paid"
        ELSE "Partial"
  IN normalizedOrder(order, priceTotal, advancePaid, balanceAmount, paymentStatus)

readOrderById(db, id) == normalizeOrder(db[id])

\* getAll() returns the records in key order (the keys are 1..n: no record
\* is ever deleted); each is normalized
readAllOrders(db) == [id \in DOMAIN db |-> normalizeOrder(db[id])]

\* store.add(order): the auto-increment key is the next free one
createOrder(db, order) ==
  LET id == Cardinality(DOMAIN db) + 1
  IN [k \in (DOMAIN db) \cup {id} |-> IF k = id THEN Spread(order, [id |-> id]) ELSE db[k]]

\* a merge that lets the caller's sync marks through: the variant C4 excludes
updateOrderMerge_keepsSyncMarks(existingOrder, id, updates, time) ==
  Spread(Spread(existingOrder, updates),
    [id |-> id,
     deliveredAt |->
       IF Has(updates, "status") /\ updates.status = "Delivered"
          /\ existingOrder.status # "Delivered"
       THEN time
       ELSE existingOrder.deliveredAt])

\* a merge that lets a deliveredAt among the updates through: the variant
\* C19 excludes
updateOrderMerge_takesDeliveredAt(existingOrder, id, updates, time) ==
  Spread(Spread(existingOrder, updates),
    [id |-> id,
     deliveredAt |->
       IF Has(updates, "status") /\ updates.status = "Delivered"
          /\ existingOrder.status # "Delivered"
       THEN time
       ELSE IF Has(updates, "deliveredAt") THEN updates.deliveredAt
       ELSE existingOrder.deliveredAt,
     syncStatus |-> "pending",
     syncState |-> "pending"])

\* the merged record updateOrder puts back (existingOrder is the stored one)
updateOrderMerge(existingOrder, id, updates, time) ==
  Spread(Spread(existingOrder, updates),
    [id |-> id,
     deliveredAt |->
       IF Has(updates, "status") /\ updates.status = "Delivered"
          /\ existingOrder.status # "Delivered"
       THEN time
       ELSE existingOrder.deliveredAt,
     syncStatus |-> "pending",
     syncState |-> "pending"])

\* an update that puts a record under an identifier it did not find: the
\* variant C18 excludes
updateOrder_upserts(db, id, updates, time) ==
  IF id \notin DOMAIN db
  THEN [k \in (DOMAIN db) \cup {id} |-> IF k = id THEN Spread(updates, [id |-> id]) ELSE db[k]]
  ELSE [db EXCEPT ![id] = updateOrderMerge(db[id], id, updates, time)]

\* store.get(id) finds no record: the promise rejects before any put
updateOrder(db, id, updates, time) ==
  IF id \notin DOMAIN db THEN db
  ELSE [db EXCEPT ![id] = updateOrderMerge(db[id], id, updates, time)]

updateOrderPayment(db, id, paymentUpdate) ==
  IF id \notin DOMAIN db THEN db ELSE
  LET existingOrder == db[id]
      currentHistory ==
        IF Has(existingOrder, "paymentHistory") THEN existingOrder.paymentHistory ELSE <<>>
      updatedHistory == Append(currentHistory, paymentUpdate.historyEntry)
  IN [db EXCEPT ![id] =
        Spread(existingOrder,
          [advancePaid |-> paymentUpdate.advancePaid,
           balanceAmount |-> paymentUpdate.balanceAmount,
           paymentStatus |-> paymentUpdate.paymentStatus,
           paymentMethod |-> paymentUpdate.paymentMethod,
           paymentHistory |-> updatedHistory,
           id |-> id,
           syncStatus |-> "pending",
           syncState |-> "pending"])]

\* How a repository write settles: the rejection message ("none" when the
\* promise resolves) and whether 'db-change' was dispatched.
\* event: whether 'db-change' was dispatched; detail: its detail.store
NoCall == [op |-> "none", error |-> "none", event |-> FALSE, detail |-> "none"]

\* a write that resolves without dispatching
Resolves_silently(op) == [op |-> op, error |-> "none", event |-> FALSE, detail |-> "none"]

Resolves(op) ==
  [op |-> op, error |-> "none", event |-> TRUE, detail |-> "orders"]

Rejects(op, message) == [op |-> op, error |-> message, event |-> FALSE, detail |-> "none"]

\* handleDbChange: the subscribers invalidate on a 'db-change' for 'orders'
handleDbChange(call) == call.event /\ call.detail = "orders"

\* createOrder resolves in request.onsuccess, whatever the object holds
createOrderSettles(db, order) == Resolves("createOrder")

updateOrderSettles(db, id) ==
  IF id \notin DOMAIN db THEN Rejects("updateOrder", "Order not found")
  ELSE Resolves("updateOrder")

updateOrderPaymentSettles(db, id) ==
  IF id \notin DOMAIN db THEN Rejects("updateOrderPayment", "Order not found")
  ELSE Resolves("updateOrderPayment")

\* ------------------------------------------------------ syncStatusStore
\* lastSyncMessage holds what the message text is built from: the number of
\* orders synced (success) or the joined error entries (error)
getSyncStatus_default ==
  [lastSyncTime |-> Null, lastSyncResult |-> "null",
   lastSyncMessage |-> [uploaded |-> 0, errors |-> <<>>]]

updateSyncSuccess(uploaded, time) ==
  [lastSyncTime |-> time, lastSyncResult |-> "success",
   lastSyncMessage |-> [uploaded |-> uploaded, errors |-> <<>>]]

\* an updateSyncError that records the pass as a success
updateSyncError_recordsSuccess(errors, time) ==
  [lastSyncTime |-> time, lastSyncResult |-> "success",
   lastSyncMessage |-> [uploaded |-> 0, errors |-> errors]]

updateSyncError(errors, time) ==
  [lastSyncTime |-> time, lastSyncResult |-> "error",
   lastSyncMessage |-> [uploaded |-> 0, errors |-> errors]]

\* ---------------------------------------------------------------- localDb
\* The migration steps of onupgradeneeded: what the forEach of each step
\* does to one record before store.put(order).  A default is assigned where
\* the field is undefined (for paymentHistory: where it is not an array).
migrateV2(order) ==
  Spread([priceTotal |-> 0, advancePaid |-> 0, balanceAmount |-> 0,
          paymentStatus |-> "Unpaid", paymentMethod |-> "Cash", notes |-> ""], order)

migrateV3(order) == Spread([paymentHistory |-> <<>>], order)

migrateV4(order) ==
  Spread([remoteId |-> Null, lastSyncedAt |-> Null, syncState |-> "pending",
          imageStorageUrls |-> <<>>], order)

\* a v5 step that assigns lastSyncedAt without looking at the field
migrateV5_resetsLastSyncedAt(order) ==
  Spread(Spread([cloudId |-> Null, syncStatus |-> "pending"], order),
         [lastSyncedAt |-> Null])

migrateV5(order) ==
  Spread([cloudId |-> Null, syncStatus |-> "pending", lastSyncedAt |-> Null], order)

migrate(step, order) ==
  CASE step = 2 -> migrateV2(order)
    [] step = 3 -> migrateV3(order)
    [] step = 4 -> migrateV4(order)
    [] step = 5 -> migrateV5(order)

\* the requests placed against the versionchange transaction
NoRecord == [id |-> 0]
GetAllRequest(step) == [kind |-> "getAll", step |-> step, order |-> NoRecord]
PutRequest(step, order) == [kind |-> "put", step |-> step, order |-> order]

\* `if (event.oldVersion < N && transaction)`, N = 2..5 in source order: each
\* block places its store.getAll() before the handler returns
UpgradeSteps(oldVersion) ==
  LET Wanted(step) == oldVersion < step
  IN [i \in 1..Len(SelectSeq(<<2, 3, 4, 5>>, Wanted)) |->
        GetAllRequest(SelectSeq(<<2, 3, 4, 5>>, Wanted)[i])]

\* getAllRequest.onsuccess of a step over the records the request read:
\* one store.put(order) per record, in key order
UpgradePuts(step, db) ==
  [i \in 1..Cardinality(DOMAIN db) |-> PutRequest(step, migrate(step, db[i]))]

Closed(oldVersion, db) ==
  [phase |-> "closed", oldVersion |-> oldVersion, before |-> db, requests |-> <<>>]
Opened(oldVersion, db) ==
  [phase |-> "open", oldVersion |-> oldVersion, before |-> db, requests |-> <<>>]

\* ------------------------------------------------------ orderImagesLocal
\* A data URL is "data:<mime>;base64,<payload>".  mime says whether the
\* ":<mime>;" marker is there; payload is "valid" base64, "invalid" base64,
\* or "missing" (no comma, so arr[1] is undefined).
GoodImage == [mime |-> TRUE, payload |-> "valid"]
BadImage == [mime |-> TRUE, payload |-> "invalid"]
\* "data:;base64,<payload>" (a file without a type) or no "data:<mime>;" at all
NoMimeImage == [mime |-> FALSE, payload |-> "valid"]
\* no comma: there is no payload part
NoPayloadImage == [mime |-> TRUE, payload |-> "missing"]
LocalImages == {GoodImage, BadImage, NoMimeImage, NoPayloadImage}

\* atob throws on an invalid payload and on the string "undefined"
dataUrlToBlob(dataUrl) ==
  IF dataUrl.payload = "valid"
  THEN [ok |-> TRUE, type |-> IF dataUrl.mime THEN "image/png" ELSE "image/jpeg"]
  ELSE [ok |-> FALSE, type |-> "none"]

\* ------------------------------------------------------ firestoreOrders
\* the keys of firestoreData: userId and lastSyncedAt always, every other
\* key only when the field of the (sanitized) order is not undefined
firestoreDataKeys(order) ==
  {"userId", "lastSyncedAt"}
  \cup ({"orderId", "customerName", "bookingDate", "deliveryDate", "measurements",
         "productDetails", "status", "deliveredAt", "createdAt", "priceTotal",
         "advancePaid", "balanceAmount", "paymentStatus", "paymentMethod", "notes",
         "paymentHistory"} \cap DOMAIN order)
  \cup (IF Has(order, "imageStorageUrls") THEN {"imageUrls"} ELSE {})
  \cup (IF Has(order, "id") THEN {"localId"} ELSE {})

\* uploadOrderToFirestore: setDoc(merge) on remoteId when it is truthy,
\* addDoc otherwise; freshId is the identifier addDoc would assign
uploadOrderToFirestore(order, remoteId, freshId) ==
  [keys |-> firestoreDataKeys(order),
   create |-> (remoteId = Null),
   docId |-> IF remoteId # Null THEN remoteId ELSE freshId]

\* ----------------------------------------------------- ordersSyncService
\* a sanitizer that strips nothing: the variant C7 excludes
sanitizeOrderForSync_stripsNothing(order, userRole) == order

sanitizeOrderForSync(order, userRole) ==
  IF userRole = "STAFF" THEN Omit(order, FinancialKeys) ELSE order

\* a scope check that lets every order through: the variant C8 excludes
canStaffSyncOrder_allowsAll(order) == TRUE

canStaffSyncOrder(order) ==
  order.remoteId = Null /\ order.cloudId = Null

\* syncOrderToCloud: the STAFF scope check that throws, then the upload
syncOrderToCloudThrows(localOrder, userRole) ==
  userRole = "STAFF" /\ ~canStaffSyncOrder(localOrder)

syncOrderToCloud(localOrder, userRole, freshId) ==
  uploadOrderToFirestore(sanitizeOrderForSync(localOrder, userRole),
                         localOrder.remoteId, freshId)

Err(kind, order, img) == [kind |-> kind, code |-> order.orderId, img |-> img]

\* imageStorageUrls[i] = url (indices are 1-based here, 0-based in the source)
SetAt(urls, i, url) ==
  [j \in 1..Max(Len(urls), i) |->
     IF j = i THEN url ELSE IF j <= Len(urls) THEN urls[j] ELSE Null]

UrlAt(urls, i) == IF i <= Len(urls) THEN urls[i] ELSE Null

\* line 122: the order is uploaded when it was never synced or is pending
Eligible(order) == order.remoteId = Null \/ order.syncState = "pending"

\* The synchronous part of syncOrders between two awaits.  RunLoop is the
\* head of `for (const order of localOrders)`, RunImages the head of the
\* image loop.  Both return the pass state at the next await.
RECURSIVE RunLoop(_)
RECURSIVE RunImages(_)

\* the per-order catch (line 193), then the next order; localOrders holds
\* the orders the loop has not finished yet
NextOrder(ps, errs) ==
  RunLoop([ps EXCEPT !.localOrders = Tail(@), !.i = 0, !.urls = <<>>, !.rid = Null,
                     !.errors = @ \o errs])

RunLoop(ps) ==
  IF ps.localOrders = <<>>
  THEN [ps EXCEPT !.pc = "finish", !.i = 0, !.urls = <<>>, !.rid = Null]
  ELSE LET order == Head(ps.localOrders)
       IN IF ~Eligible(order) THEN RunLoop([ps EXCEPT !.localOrders = Tail(@)])
          ELSE IF ps.role = "STAFF" /\ ~canStaffSyncOrder(order)
          THEN RunLoop([ps EXCEPT !.localOrders = Tail(@),
                                  !.errors = Append(@, Err("skip", order, 0))])
          ELSE RunImages([ps EXCEPT !.i = 1, !.urls = order.imageStorageUrls])

RunImages(ps) ==
  LET order == Head(ps.localOrders)
  IN IF ps.i > Len(order.images)
     THEN \* Step 1b, or straight to 1c when there is no URL to store
          IF Len(ps.urls) > 0
          THEN [ps EXCEPT !.pc = "saveUrls"]
          ELSE IF syncOrderToCloudThrows(order, ps.role)
          THEN NextOrder(ps, <<Err("sync", order, 0)>>)
          ELSE [ps EXCEPT !.pc = "record"]
     ELSE IF UrlAt(ps.urls, ps.i) # Null
     THEN RunImages([ps EXCEPT !.i = @ + 1])
     ELSE IF ~dataUrlToBlob(order.images[ps.i]).ok
     THEN \* inner catch pushes, rethrows; the per-order catch pushes again
          NextOrder(ps, <<Err("image", order, ps.i), Err("sync", order, 0)>>)
     ELSE [ps EXCEPT !.pc = "image"]

\* ------------------------------------------------------------- state
VARIABLES
  store,          \* the IndexedDB object store 'orders': id -> stored record
  pass,           \* the executions of syncOrders, one per slot
  remoteDocs,     \* documents created by addDoc: records [docId, localId]
  sent,           \* the payload handed to Firestore last: [role, keys, docId]
  lastWrite,      \* per order: which operation wrote the record last
  lastSync,       \* localStorage 'phoenix_boutique_sync_status': the SyncStatus
  screen,         \* the screen AppShell renders
  viewOrder,      \* useSingleOrder's data on the details / edit screen
  now,            \* Date.now()
  role,           \* RoleProvider's role
  isOnline,       \* useOnlineStatus
  isAuthenticated,\* useFirebaseAuth: !!user
  isConfigured,   \* useFirebase
  isSyncing,      \* useOrdersAutoSync state
  lastSyncAttempt,\* useOrdersAutoSync state
  hasAttemptedInitialSync, \* useOrdersAutoSync ref
  wasOffline,     \* useOrdersAutoSync ref
  timer,          \* Trigger 1's setTimeout with the attemptSync closure it holds
  manualIsSyncing,\* ReportsScreen state
  lastStart,      \* Date.now() at the latest call of syncOrders (0: none yet)
  lastCall,       \* the outcome of the latest repository write call
  lastResult,     \* the SyncResult the latest call of syncOrders returned
  invalidated,    \* React Query: the mounted ['orders'] query awaits its refetch
  upgrade,        \* initDb: the open request and its versionchange transaction
  txs             \* the readwrite transactions on 'orders', in creation order

vars == <<store, pass, remoteDocs, sent, lastWrite, lastSync,
          screen, viewOrder, now, role, isOnline, isAuthenticated, isConfigured,
          isSyncing, lastSyncAttempt, hasAttemptedInitialSync, wasOffline, timer,
          manualIsSyncing, lastStart, lastCall, lastResult, invalidated, upgrade,
          txs>>

repoVars == <<store, lastWrite>>
dbVars == <<upgrade, txs>>
remoteVars == <<remoteDocs, sent>>
uiVars == <<screen, viewOrder>>
envVars == <<role, isOnline, isAuthenticated, isConfigured>>
hookVars == <<isSyncing, lastSyncAttempt, hasAttemptedInitialSync, wasOffline, timer>>

OrderCode(id) == 100 + id

\* the object NewOrderScreen.handleSubmit hands to createOrder
NewOrder(code, name, images, total, paid, method, time) ==
  [orderId |-> code,
   customerName |-> name,
   bookingDate |-> time,
   deliveryDate |-> time,
   measurements |-> "m",
   productDetails |-> "p",
   images |-> images,
   status |-> "Pending",
   deliveredAt |-> Null,
   createdAt |-> time,
   priceTotal |-> total,
   advancePaid |-> paid,
   balanceAmount |-> calculateBalance(total, paid),
   paymentStatus |-> derivePaymentStatus(total, paid),
   paymentMethod |-> method,
   notes |-> "",
   paymentHistory |-> <<>>,
   cloudId |-> Null,
   syncStatus |-> "pending",
   lastSyncedAt |-> Null]

IdlePass ==
  [pc |-> "idle", role |-> "STAFF", owner |-> "none", localOrders |-> <<>>,
   i |-> 0, urls |-> <<>>, rid |-> Null, uploaded |-> 0,
   errors |-> <<>>]

NoTimer == [armed |-> FALSE, at |-> 0, isSyncing |-> FALSE, lastSyncAttempt |-> 0,
            role |-> "STAFF"]

NoView == [id |-> 0]

\* no call of syncOrders has returned yet
NoResult == [success |-> FALSE, uploaded |-> 0, errors |-> <<>>, returned |-> FALSE]

NoPayload == [role |-> "none", keys |-> {}, docId |-> Null]

InFlight(p) == pass[p].pc # "idle"
FreeSlots == {p \in Slots : ~InFlight(p)}

\* a store holding n orders of earlier sessions, each with MaxImages images
RECURSIVE StoreOf(_)
StoreOf(n) ==
  IF n = 0 THEN <<>>
  ELSE createOrder(StoreOf(n - 1),
         NewOrder(OrderCode(n), "Asha", [j \in 1..MaxImages |-> GoodImage], 2, 0,
                  "Cash", EPOCH_MS))

\* the application state at mount over the store db
AppInit(db) ==
  /\ store = db
  /\ pass = [p \in Slots |-> IdlePass]
  /\ remoteDocs = {}
  /\ sent = NoPayload
  /\ lastWrite = [id \in Ids |-> IF id \in DOMAIN db THEN "create" ELSE "none"]
  /\ lastSync = getSyncStatus_default
  /\ screen = "dashboard"
  /\ viewOrder = NoView
  /\ now = EPOCH_MS
  /\ role \in Roles
  /\ isOnline \in BOOLEAN
  /\ isAuthenticated = FALSE
  /\ isConfigured = TRUE
  /\ isSyncing = FALSE
  /\ lastSyncAttempt = 0
  /\ hasAttemptedInitialSync = FALSE
  /\ wasOffline = ~isOnline
  /\ timer = NoTimer
  /\ manualIsSyncing = FALSE
  /\ lastStart = 0
  /\ lastCall = NoCall
  /\ lastResult = NoResult
  /\ invalidated = FALSE
  /\ txs = <<>>

\* the state after the application has mounted over the store db, which
\* initDb found at DB_VERSION
InitWith(db) ==
  /\ AppInit(db)
  /\ upgrade = Opened(DB_VERSION, db)

\* a session that starts over an empty store or over one earlier order
Init == \E n \in 0..MaxOrders : InitWith(StoreOf(n))

\* a session that starts over a batch of earlier orders
BatchInit == InitWith(StoreOf(BatchSize))

\* ------------------------------------------------------ syncOrders steps
\* a Step 1d that writes the order of the pass back with the metadata
writeBackUpdates_wholeOrder(order, remoteId, time) ==
  Spread(order, [remoteId |-> remoteId, lastSyncedAt |-> time, syncState |-> "synced"])

\* Step 1d: the updates handed to updateOrder
writeBackUpdates(order, remoteId, time) ==
  [remoteId |-> remoteId, lastSyncedAt |-> time, syncState |-> "synced"]

CurrentOrder(p) == Head(pass[p].localOrders)

\* the call of syncOrders(userId, userRole) up to `await readAllOrders()`
StartPass(p, userRole, owner) ==
  /\ pass' = [pass EXCEPT ![p] =
               [IdlePass EXCEPT !.pc = "read", !.role = userRole, !.owner = owner]]
  /\ lastStart' = now

\* line 117: readAllOrders resolves; the loop runs to its first await
ReadOrders(p) ==
  /\ pass[p].pc = "read"
  /\ pass' = [pass EXCEPT ![p] =
       RunLoop([pass[p] EXCEPT !.localOrders = readAllOrders(store)])]
  /\ UNCHANGED <<dbVars, lastResult, invalidated, lastStart, lastCall, repoVars, remoteVars, lastSync, uiVars, now, envVars,
                 hookVars, manualIsSyncing>>

\* line 117 rejects: the outer catch (line 262)
ReadOrdersFails(p) ==
  /\ pass[p].pc = "read"
  /\ pass' = [pass EXCEPT ![p] =
       [pass[p] EXCEPT !.pc = "finish",
                       !.errors = <<[kind |-> "fatal", code |-> 0, img |-> 0]>>]]
  /\ UNCHANGED <<dbVars, lastResult, invalidated, lastStart, lastCall, repoVars, remoteVars, lastSync, uiVars, now, envVars,
                 hookVars, manualIsSyncing>>

\* the download URL of the object at users/<uid>/orders/<orderId>/image_<i>
DownloadUrl(order, i) == 10 * order.orderId + i

\* line 149: uploadImageToStorage resolves with success and the URL
ImageUploaded(p) ==
  /\ pass[p].pc = "image"
  /\ LET ps == pass[p]
     IN pass' = [pass EXCEPT ![p] =
          RunImages([ps EXCEPT !.urls = SetAt(ps.urls, ps.i,
                                              DownloadUrl(CurrentOrder(p), ps.i)),
                               !.i = @ + 1])]
  /\ UNCHANGED <<dbVars, lastResult, invalidated, lastStart, lastCall, repoVars, remoteVars, lastSync, uiVars, now, envVars,
                 hookVars, manualIsSyncing>>

\* line 149: uploadImageToStorage resolves with success = false (line 160)
ImageUploadFails(p) ==
  /\ pass[p].pc = "image"
  /\ LET ps == pass[p]
         order == CurrentOrder(p)
     IN pass' = [pass EXCEPT ![p] =
          NextOrder(ps,
                    <<Err("image", order, ps.i), Err("sync", order, 0)>>)]
  /\ UNCHANGED <<dbVars, lastResult, invalidated, lastStart, lastCall, repoVars, remoteVars, lastSync, uiVars, now, envVars,
                 hookVars, manualIsSyncing>>

\* Step 1b (line 173): updateOrder(order.id, { imageStorageUrls }) resolves
SaveUrls(p) ==
  /\ pass[p].pc = "saveUrls"
  /\ LET ps == pass[p]
         order == CurrentOrder(p)
     IN /\ order.id \in DOMAIN store
        /\ store' = updateOrder(store, order.id, [imageStorageUrls |-> ps.urls], now)
        /\ lastWrite' = [lastWrite EXCEPT ![order.id] = "urls"]
        /\ lastCall' = updateOrderSettles(store, order.id)
        /\ invalidated' = (invalidated \/ (handleDbChange(lastCall') /\ viewOrder # NoView))
        /\ pass' = [pass EXCEPT ![p] =
             IF syncOrderToCloudThrows(order, ps.role)
             THEN NextOrder(ps, <<Err("sync", order, 0)>>)
             ELSE [ps EXCEPT !.pc = "record"]]
  /\ UNCHANGED <<dbVars, lastResult, lastStart, remoteVars, lastSync, uiVars, now, envVars,
                 hookVars, manualIsSyncing>>

\* Step 1b rejects (put error): the per-order catch
SaveUrlsFails(p) ==
  /\ pass[p].pc = "saveUrls"
  /\ pass' = [pass EXCEPT ![p] =
       NextOrder(pass[p], <<Err("sync", CurrentOrder(p), 0)>>)]
  /\ lastCall' = Rejects("updateOrder", "Failed to update order")
  /\ UNCHANGED <<dbVars, lastResult, invalidated, lastStart, repoVars, remoteVars, lastSync, uiVars, now, envVars,
                 hookVars, manualIsSyncing>>

\* Step 1c (line 180): syncOrderToCloud resolves with the remote identifier
RecordUploaded(p) ==
  /\ pass[p].pc = "record"
  /\ LET ps == pass[p]
         order == CurrentOrder(p)
         orderWithImages == Spread(order, [imageStorageUrls |-> ps.urls])
         res == syncOrderToCloud(orderWithImages, ps.role, Cardinality(remoteDocs) + 1)
     IN /\ res.create => Cardinality(remoteDocs) < MaxRemote
        /\ sent' = [role |-> ps.role, keys |-> res.keys, docId |-> res.docId]
        /\ remoteDocs' = IF res.create
                         THEN remoteDocs \cup {[docId |-> res.docId, localId |-> order.id]}
                         ELSE remoteDocs
        /\ pass' = [pass EXCEPT ![p] =
             [ps EXCEPT !.pc = "writeback", !.rid = res.docId]]
  /\ UNCHANGED <<dbVars, lastResult, invalidated, lastStart, lastCall, repoVars, lastSync, uiVars, now, envVars,
                 hookVars, manualIsSyncing>>

\* Step 1c rejects: the per-order catch
RecordUploadFails(p) ==
  /\ pass[p].pc = "record"
  /\ pass' = [pass EXCEPT ![p] =
       NextOrder(pass[p], <<Err("sync", CurrentOrder(p), 0)>>)]
  /\ UNCHANGED <<dbVars, lastResult, invalidated, lastStart, lastCall, repoVars, remoteVars, lastSync, uiVars, now, envVars,
                 hookVars, manualIsSyncing>>

\* Step 1d (line 184): updateOrder with the sync metadata resolves; uploaded++
WriteBack(p) ==
  /\ pass[p].pc = "writeback"
  /\ LET ps == pass[p]
         order == CurrentOrder(p)
     IN /\ order.id \in DOMAIN store
        /\ store' = updateOrder(store, order.id, writeBackUpdates(order, ps.rid, now), now)
        /\ lastWrite' = [lastWrite EXCEPT ![order.id] = "writeback"]
        /\ lastCall' = updateOrderSettles(store, order.id)
        /\ invalidated' = (invalidated \/ (handleDbChange(lastCall') /\ viewOrder # NoView))
        /\ pass' = [pass EXCEPT ![p] =
             RunLoop([ps EXCEPT !.uploaded = @ + 1, !.localOrders = Tail(@), !.i = 0,
                                !.urls = <<>>, !.rid = Null])]
  /\ UNCHANGED <<dbVars, lastResult, lastStart, remoteVars, lastSync, uiVars, now, envVars,
                 hookVars, manualIsSyncing>>

\* Step 1d rejects (put error): the per-order catch
WriteBackFails(p) ==
  /\ pass[p].pc = "writeback"
  /\ pass' = [pass EXCEPT ![p] =
       NextOrder(pass[p], <<Err("sync", CurrentOrder(p), 0)>>)]
  /\ lastCall' = Rejects("updateOrder", "Failed to update order")
  /\ UNCHANGED <<dbVars, lastResult, invalidated, lastStart, repoVars, remoteVars, lastSync, uiVars, now, envVars,
                 hookVars, manualIsSyncing>>

\* lines 251-266: success flag, last-sync-status record, return; then the
\* caller's `finally` (setIsSyncing(false) of the component that started it)
Finish(p) ==
  /\ pass[p].pc = "finish"
  /\ LET ps == pass[p]
         \* the outer catch: result.success keeps its initial false
         thrown == ps.errors # <<>> /\ ps.errors[Len(ps.errors)].kind = "fatal"
         success == IF thrown THEN FALSE ELSE ps.errors = <<>>
     IN /\ lastSync' = IF thrown THEN updateSyncError(ps.errors, now)
                       ELSE IF success THEN updateSyncSuccess(ps.uploaded, now)
                       ELSE updateSyncError(ps.errors, now)
        /\ lastResult' = [success |-> success, uploaded |-> ps.uploaded,
                          errors |-> ps.errors, returned |-> TRUE]
        /\ pass' = [pass EXCEPT ![p] = IdlePass]
        /\ isSyncing' = IF ps.owner = "hook" THEN FALSE ELSE isSyncing
        /\ manualIsSyncing' = IF ps.owner = "reports" THEN FALSE ELSE manualIsSyncing
  /\ UNCHANGED <<dbVars, invalidated, lastStart, lastCall, repoVars, remoteVars, uiVars, now,
                 envVars, lastSyncAttempt, hasAttemptedInitialSync, wasOffline, timer>>

\* ------------------------------------------------------------ screens
ReportsMounted == screen = "reports" /\ role = "ADMIN"

\* navigateTo(target): the details and edit screens load the order through
\* useSingleOrder (readOrderById). The user leaves the reports screen between
\* manual syncs, not while one is running.
Navigate(target, id) ==
  /\ target # screen
  /\ screen = "reports" => ~manualIsSyncing
  /\ target = "reports" => role = "ADMIN"
  /\ IF target \in {"details", "edit"}
     THEN id \in DOMAIN store /\ viewOrder' = readOrderById(store, id)
     ELSE id = 1 /\ viewOrder' = NoView
  /\ invalidated' = FALSE
  /\ screen' = target
  /\ UNCHANGED <<dbVars, lastResult, lastStart, lastCall, repoVars, pass, remoteVars, lastSync, now, envVars, hookVars,
                 manualIsSyncing>>

\* useSingleOrder after its 'db-change' subscriber has invalidated the
\* query: the query function re-reads the order
RefetchView ==
  /\ viewOrder # NoView
  /\ invalidated
  /\ viewOrder' = readOrderById(store, viewOrder.id)
  /\ invalidated' = FALSE
  /\ UNCHANGED <<dbVars, lastResult, lastStart, lastCall, repoVars, pass, remoteVars, lastSync, screen, now, envVars,
                 hookVars, manualIsSyncing>>

\* NewOrderScreen.handleSubmit: createOrder, then navigateTo('dashboard')
NewOrderScreen_handleSubmit(name, total, paid, method) ==
  LET canEditFinancials == role = "ADMIN"
      priceTotalNum == IF canEditFinancials THEN total ELSE 0
      advancePaidNum == IF canEditFinancials THEN paid ELSE 0
      validation == validatePricing(priceTotalNum, advancePaidNum)
      id == Cardinality(DOMAIN store) + 1
  IN /\ screen = "new-order"
     /\ id <= MaxOrders
     /\ Trim(name) # ""
     /\ ~(canEditFinancials /\ (validation.priceTotalError \/ validation.advancePaidError))
     /\ store' = createOrder(store,
                   NewOrder(OrderCode(id), Trim(name), <<>>, priceTotalNum, advancePaidNum,
                            method, now))
     /\ lastWrite' = [lastWrite EXCEPT ![id] = "create"]
     /\ lastCall' = createOrderSettles(store, NewOrder(OrderCode(id), Trim(name), <<>>,
                       priceTotalNum, advancePaidNum, method, now))
     /\ invalidated' = (invalidated \/ (handleDbChange(lastCall') /\ viewOrder # NoView))
     /\ screen' = "dashboard"
     /\ UNCHANGED <<dbVars, lastResult, lastStart, pass, remoteVars, lastSync, viewOrder, now, envVars, hookVars,
                    manualIsSyncing>>

\* EditOrderScreen.handleSubmit: updateOrder(order.id, { ...order, <form> })
\* where order is the screen's useSingleOrder data
EditOrderScreen_updates(order, name, status, total, paid, method) ==
  Spread(order,
    [customerName |-> name,
     bookingDate |-> order.bookingDate,
     deliveryDate |-> order.deliveryDate,
     measurements |-> order.measurements,
     productDetails |-> order.productDetails,
     status |-> status,
     priceTotal |-> total,
     advancePaid |-> paid,
     balanceAmount |-> calculateBalance(total, paid),
     paymentStatus |-> derivePaymentStatus(total, paid),
     paymentMethod |-> method,
     notes |-> order.notes,
     syncStatus |-> "pending"])

EditOrderScreen_handleSubmit(name, status, total, paid, method) ==
  LET order == viewOrder
      canEditFinancials == role = "ADMIN"
      priceTotalNum == IF canEditFinancials THEN total ELSE order.priceTotal
      advancePaidNum == IF canEditFinancials THEN paid ELSE order.advancePaid
      validation == validatePricing(priceTotalNum, advancePaidNum)
  IN /\ screen = "edit"
     /\ Trim(name) # ""
     /\ ~(canEditFinancials /\ (validation.priceTotalError \/ validation.advancePaidError))
     /\ store' = updateOrder(store, order.id,
                   EditOrderScreen_updates(order, Trim(name), status, priceTotalNum,
                                           advancePaidNum, method), now)
     /\ lastWrite' = [lastWrite EXCEPT ![order.id] = "edit"]
     /\ lastCall' = updateOrderSettles(store, order.id)
     /\ invalidated' = (invalidated \/ (handleDbChange(lastCall') /\ viewOrder # NoView))
     /\ screen' = "details"
     /\ UNCHANGED <<dbVars, lastResult, lastStart, pass, remoteVars, lastSync, viewOrder, now, envVars, hookVars,
                    manualIsSyncing>>

\* the PaymentHistoryEntry both payment dialogs build
HistoryEntry(mode, amount, resulting, method, time) ==
  IF mode = "add-payment"
  THEN [timestamp |-> time, changeType |-> mode, amountChanged |-> amount,
        resultingAdvancePaid |-> resulting, paymentMethod |-> method]
  ELSE [timestamp |-> time, changeType |-> mode,
        resultingAdvancePaid |-> resulting, paymentMethod |-> method]

\* UpdatePaymentDialog.handleSubmit: the dialog that writes through updateOrder
\* with a history list built from its `order` prop
UpdatePaymentDialog_handleSubmit(mode, amountNum, method) ==
  LET order == viewOrder
      currentAdvance == order.advancePaid
      totalPrice == order.priceTotal
      isValid == IF mode = "add-payment"
                 THEN amountNum > 0 /\ currentAdvance + amountNum <= totalPrice
                 ELSE amountNum >= 0 /\ amountNum <= totalPrice
      newAdvancePaid == IF mode = "add-payment" THEN currentAdvance + amountNum
                        ELSE amountNum
      entry == HistoryEntry(mode, amountNum, newAdvancePaid, method, now)
  IN /\ screen = "details"
     /\ isValid
     /\ Len(order.paymentHistory) < MaxHistory
     /\ store' = updateOrder(store, order.id,
                   [advancePaid |-> newAdvancePaid,
                    balanceAmount |-> calculateBalance(totalPrice, newAdvancePaid),
                    paymentStatus |-> derivePaymentStatus(totalPrice, newAdvancePaid),
                    paymentMethod |-> method,
                    paymentHistory |-> Append(order.paymentHistory, entry),
                    syncStatus |-> "pending"], now)
     /\ lastWrite' = [lastWrite EXCEPT ![order.id] = "payment"]
     /\ lastCall' = updateOrderSettles(store, order.id)
     /\ invalidated' = (invalidated \/ (handleDbChange(lastCall') /\ viewOrder # NoView))
     /\ UNCHANGED <<dbVars, lastResult, lastStart, pass, remoteVars, lastSync, uiVars, now, envVars, hookVars, manualIsSyncing>>

\* UpdatePaymentDialog.handleSave: the dialog that writes through
\* updateOrderPayment
UpdatePaymentDialog_handleSave(mode, amountNum, method) ==
  LET order == viewOrder
      resultingAdvancePaid == IF mode = "add-payment" THEN order.advancePaid + amountNum
                              ELSE amountNum
      validation == validatePricing(order.priceTotal, resultingAdvancePaid)
      entry == HistoryEntry(mode, amountNum, resultingAdvancePaid, method, now)
  IN /\ screen = "details"
     /\ mode = "add-payment" => amountNum > 0
     /\ ~validation.advancePaidError
     /\ Len(normalizeOrder(store[order.id]).paymentHistory) < MaxHistory
     /\ store' = updateOrderPayment(store, order.id,
                   [advancePaid |-> resultingAdvancePaid,
                    balanceAmount |-> calculateBalance(order.priceTotal, resultingAdvancePaid),
                    paymentStatus |-> derivePaymentStatus(order.priceTotal, resultingAdvancePaid),
                    paymentMethod |-> method,
                    historyEntry |-> entry])
     /\ lastWrite' = [lastWrite EXCEPT ![order.id] = "payment"]
     /\ lastCall' = updateOrderPaymentSettles(store, order.id)
     /\ invalidated' = (invalidated \/ (handleDbChange(lastCall') /\ viewOrder # NoView))
     /\ UNCHANGED <<dbVars, lastResult, lastStart, pass, remoteVars, lastSync, uiVars, now, envVars, hookVars, manualIsSyncing>>

\* ------------------------------------------- repository calls, directly
\* the identifiers a caller can pass: those in the store and one that is not
CallIds == 1..(MaxOrders + 1)

\* createOrder(order) with the object a caller built
Repo_createOrder(name, total, paid) ==
  LET id == Cardinality(DOMAIN store) + 1
      order == NewOrder(OrderCode(id), name, <<>>, total, paid, "Cash", now)
  IN /\ id <= MaxOrders
     /\ store' = createOrder(store, order)
     /\ lastWrite' = [lastWrite EXCEPT ![id] = "create"]
     /\ lastCall' = createOrderSettles(store, order)
     /\ invalidated' = (invalidated \/ (handleDbChange(lastCall') /\ viewOrder # NoView))
     /\ UNCHANGED <<dbVars, lastResult, lastStart, pass, remoteVars, lastSync, uiVars, now, envVars, hookVars,
                    manualIsSyncing>>

\* updateOrder(id, updates)
Repo_updateOrder(id, updates) ==
  /\ store' = updateOrder(store, id, updates, now)
  /\ lastWrite' = IF id \in DOMAIN store THEN [lastWrite EXCEPT ![id] = "edit"]
                  ELSE lastWrite
  /\ lastCall' = updateOrderSettles(store, id)
  /\ invalidated' = (invalidated \/ (handleDbChange(lastCall') /\ viewOrder # NoView))
  /\ UNCHANGED <<dbVars, lastResult, lastStart, pass, remoteVars, lastSync, uiVars, now, envVars, hookVars,
                 manualIsSyncing>>

\* updateOrderPayment(id, paymentUpdate)
Repo_updateOrderPayment(id, mode, advance) ==
  LET total == IF id \in DOMAIN store THEN readOrderById(store, id).priceTotal ELSE 0
  IN /\ id \in DOMAIN store => Len(readOrderById(store, id).paymentHistory) < MaxHistory
     /\ store' = updateOrderPayment(store, id,
                   [advancePaid |-> advance,
                    balanceAmount |-> calculateBalance(total, advance),
                    paymentStatus |-> derivePaymentStatus(total, advance),
                    paymentMethod |-> "Cash",
                    historyEntry |-> HistoryEntry(mode, advance, advance, "Cash", now)])
     /\ lastWrite' = IF id \in DOMAIN store THEN [lastWrite EXCEPT ![id] = "payment"]
                     ELSE lastWrite
     /\ lastCall' = updateOrderPaymentSettles(store, id)
     /\ invalidated' = (invalidated \/ (handleDbChange(lastCall') /\ viewOrder # NoView))
     /\ UNCHANGED <<dbVars, lastResult, lastStart, pass, remoteVars, lastSync, uiVars, now, envVars, hookVars,
                    manualIsSyncing>>

\* ------------------------------------------------------ sync triggers
\* the values an attemptSync closure captured in the render that created it
Closure(syncing, configured, authenticated, online, lastAttempt, userRole) ==
  [isSyncing |-> syncing, isConfigured |-> configured, isAuthenticated |-> authenticated,
   isOnline |-> online, lastSyncAttempt |-> lastAttempt, role |-> userRole]

\* guards without the throttle test: the variant C13 excludes
attemptSyncGuards_noThrottle(c, time) ==
  /\ ~c.isSyncing
  /\ c.isConfigured /\ c.isAuthenticated /\ c.isOnline

\* the three guards of attemptSync (lines 391-404)
attemptSyncGuards(c, time) ==
  /\ ~c.isSyncing
  /\ c.isConfigured /\ c.isAuthenticated /\ c.isOnline
  /\ ~(time - c.lastSyncAttempt < THROTTLE_MS)

\* attemptSync with closure c: a no-op when a guard fails, otherwise
\* setIsSyncing(true), setLastSyncAttempt(now) and the call of syncOrders
attemptSync(c) ==
  IF attemptSyncGuards(c, now)
  THEN /\ isSyncing' = TRUE
       /\ lastSyncAttempt' = now
       /\ \E p \in FreeSlots :
            /\ \A q \in FreeSlots : p <= q
            /\ StartPass(p, c.role, "hook")
  ELSE UNCHANGED <<isSyncing, lastSyncAttempt, pass, lastStart>>

\* useOnlineStatus / useFirebaseAuth change one of the effect dependencies;
\* the hook re-renders and both effects run in order.
\*  Trigger 1 (deps isConfigured, isAuthenticated, isOnline): the cleanup of
\*  the previous run clears its timer; the timer is armed once per session.
\*  Trigger 2 (deps isOnline): attemptSync of this render when the device
\*  was offline and is online now.
SignalsChange(online, authenticated) ==
  /\ <<online, authenticated>> # <<isOnline, isAuthenticated>>
  /\ isOnline' = online
  /\ isAuthenticated' = authenticated
  /\ IF ~hasAttemptedInitialSync /\ isConfigured /\ authenticated /\ online
     THEN /\ hasAttemptedInitialSync' = TRUE
          /\ timer' = [armed |-> TRUE, at |-> now + INITIAL_DELAY_MS,
                       isSyncing |-> isSyncing, lastSyncAttempt |-> lastSyncAttempt,
                       role |-> role]
     ELSE /\ hasAttemptedInitialSync' = hasAttemptedInitialSync
          /\ timer' = NoTimer
  /\ IF online # isOnline
     THEN /\ wasOffline' = ~online
          /\ IF wasOffline /\ online
             THEN attemptSync(Closure(isSyncing, isConfigured, authenticated, online,
                                      lastSyncAttempt, role))
             ELSE UNCHANGED <<isSyncing, lastSyncAttempt, pass, lastStart>>
     ELSE UNCHANGED <<wasOffline, isSyncing, lastSyncAttempt, pass, lastStart>>
  /\ UNCHANGED <<dbVars, lastResult, invalidated, lastCall, repoVars, remoteVars, lastSync, uiVars, now, role, isConfigured,
                 manualIsSyncing>>

\* Trigger 1's timer fires: attemptSync of the render that armed it
TimerFires ==
  /\ timer.armed
  /\ now >= timer.at
  /\ timer' = NoTimer
  /\ attemptSync(Closure(timer.isSyncing, TRUE, TRUE, TRUE, timer.lastSyncAttempt,
                         timer.role))
  /\ UNCHANGED <<dbVars, lastResult, invalidated, lastCall, repoVars, remoteVars, lastSync, uiVars, now, envVars,
                 hasAttemptedInitialSync, wasOffline, manualIsSyncing>>

\* ReportsScreen.handleManualSync behind its button (disabled while the
\* screen's own isSyncing is set or the device is offline)
handleManualSync ==
  /\ ReportsMounted
  /\ ~manualIsSyncing /\ isOnline
  /\ isAuthenticated
  /\ manualIsSyncing' = TRUE
  /\ \E p \in FreeSlots :
       /\ \A q \in FreeSlots : p <= q
       /\ StartPass(p, role, "reports")
  /\ UNCHANGED <<dbVars, lastResult, invalidated, lastCall, repoVars, remoteVars, lastSync, uiVars, now, envVars, hookVars>>

\* time passes: d milliseconds
Tick(d) ==
  /\ now + d <= EPOCH_MS + MaxTime * THROTTLE_MS
  /\ now' = now + d
  /\ UNCHANGED <<dbVars, lastResult, invalidated, lastStart, lastCall, repoVars, pass, remoteVars, lastSync, uiVars, envVars,
                 hookVars, manualIsSyncing>>

\* ---------------------------------------------------------- specification
Screens == {"dashboard", "new-order", "details", "edit", "reports"}
Statuses == {"Pending"}
Totals == {2}
Paids == {0}
Amounts == {1}
Methods == {"Cash"}
Modes == {"add-payment"}

PassStep ==
  \E p \in Slots :
    \/ ReadOrders(p)
    \/ ReadOrdersFails(p)
    \/ ImageUploaded(p)
    \/ ImageUploadFails(p)
    \/ SaveUrls(p)
    \/ SaveUrlsFails(p)
    \/ RecordUploaded(p)
    \/ RecordUploadFails(p)
    \/ WriteBack(p)
    \/ WriteBackFails(p)
    \/ Finish(p)

\* what the user does on the screens, with the form inputs drawn from the
\* given sets
ScreenStepOver(screens, statuses, totals, paids, amounts, modes) ==
  \/ \E t \in screens, id \in Ids : Navigate(t, id)
  \/ RefetchView
  \/ \E n \in Names, t \in totals, a \in paids, m \in Methods :
       NewOrderScreen_handleSubmit(n, t, a, m)
  \/ \E n \in Names, st \in statuses, t \in totals, a \in paids, m \in Methods :
       EditOrderScreen_handleSubmit(n, st, t, a, m)
  \/ \E md \in modes, a \in amounts, m \in Methods : UpdatePaymentDialog_handleSubmit(md, a, m)
  \/ \E md \in modes, a \in amounts, m \in Methods : UpdatePaymentDialog_handleSave(md, a, m)

ScreenStep == ScreenStepOver(Screens, Statuses, Totals, Paids, Amounts, Modes)

TriggerStep ==
  \/ \E o \in BOOLEAN : SignalsChange(o, TRUE)
  \/ handleManualSync

Next == PassStep \/ ScreenStep \/ TriggerStep

Spec == Init /\ [][Next]_vars

\* the passes of a session without screen activity: reconnects after the
\* throttle interval
BatchNext ==
  \/ PassStep
  \/ \E o \in BOOLEAN, a \in BOOLEAN : SignalsChange(o, a)
  \/ TimerFires
  \/ Tick(THROTTLE_MS)

BatchSpec == BatchInit /\ [][BatchNext]_vars

\* the order screens alone, with every status, amounts on both sides of the
\* total and both payment modes, on a clock that advances
EditScreens == {"dashboard", "new-order", "details", "edit"}
EditStatuses == {"Pending", "Delivered"}
EditTotals == {1, 2}
EditPaids == {0, 1, 2}
EditAmounts == {0, 1, 2}
EditModes == {"add-payment", "set-advance"}

EditNext ==
  \/ ScreenStepOver(EditScreens, EditStatuses, EditTotals, EditPaids, EditAmounts, EditModes)
  \/ Tick(THROTTLE_MS)

EditSpec == Init /\ [][EditNext]_vars

\* the repository under direct calls with any arguments: partial updates of
\* the status, of deliveredAt, of the financial fields and of the notes
RepoUpdates ==
  {[status |-> st] : st \in EditStatuses}
  \cup {[status |-> st, deliveredAt |-> Null] : st \in EditStatuses}
  \cup {[priceTotal |-> t, advancePaid |-> a] : t \in EditTotals, a \in EditPaids}
  \cup {[notes |-> "n"]}

RepoNext ==
  \/ \E n \in Names, t \in EditTotals, a \in EditPaids : Repo_createOrder(n, t, a)
  \/ \E id \in CallIds, u \in RepoUpdates : Repo_updateOrder(id, u)
  \/ \E id \in CallIds, md \in EditModes, a \in EditPaids : Repo_updateOrderPayment(id, md, a)
  \/ Tick(THROTTLE_MS)

RepoSpec == Init /\ [][RepoNext]_vars

\* the triggers of a session over an empty store, on a clock that advances
\* by the initial delay: every pass reads the store and returns
TriggerInit == InitWith(StoreOf(0))

TriggerNext ==
  \/ \E p \in Slots : ReadOrders(p) \/ ReadOrdersFails(p) \/ Finish(p)
  \/ \E o \in BOOLEAN, a \in BOOLEAN : SignalsChange(o, a)
  \/ TimerFires
  \/ \E t \in {"dashboard", "reports"} : Navigate(t, 1)
  \/ handleManualSync
  \/ Tick(INITIAL_DELAY_MS)

TriggerSpec == TriggerInit /\ [][TriggerNext]_vars

\* a batch of two earlier orders, the first with an image of any kind
\* followed by a well-formed one
ImageStore(image) ==
  createOrder(
    createOrder(<<>>, NewOrder(OrderCode(1), "Asha", <<image, GoodImage>>, 2, 0,
                               "Cash", EPOCH_MS)),
    NewOrder(OrderCode(2), "Asha", <<GoodImage>>, 2, 0, "Cash", EPOCH_MS))

ImageInit == \E image \in LocalImages : InitWith(ImageStore(image))

ImageNext ==
  \/ PassStep
  \/ \E o \in BOOLEAN, a \in BOOLEAN : SignalsChange(o, a)

ImageSpec == ImageInit /\ [][ImageNext]_vars

\* --------------------------------------- repository calls, step by step
\* updateOrder, updateOrderPayment and readOrderById as IndexedDB runs
\* them: db.transaction(...) creates the transaction and places store.get;
\* the put of a write is placed in getRequest.onsuccess, in the same
\* transaction.
callVars == <<pass, remoteVars, lastSync, now, envVars, hookVars, manualIsSyncing,
              lastStart, lastResult, upgrade>>

NewTx(op, mode, id, arg) ==
  [op |-> op, mode |-> mode, id |-> id, arg |-> arg, pc |-> "get",
   existing |-> NoRecord]

RemoveAt(seq, i) == SubSeq(seq, 1, i - 1) \o SubSeq(seq, i + 1, Len(seq))

\* a scheduler that lets every transaction run at once
TxCanRun_withoutLocking(i) ==
  i \in DOMAIN txs

\* IndexedDB starts a transaction when no transaction created before it
\* with an overlapping scope is still live, unless both are readonly
TxCanRun(i) ==
  \A j \in 1..(i - 1) : txs[j].mode = "readonly" /\ txs[i].mode = "readonly"

TxUpdates == {[customerName |-> "Bina"], [status |-> "Delivered"]}

\* updateOrder(id, updates) up to the first suspension
Tx_updateOrder(id, updates) ==
  /\ Len(txs) < MaxTxs
  /\ txs' = Append(txs, NewTx("updateOrder", "readwrite", id, updates))
  /\ UNCHANGED <<callVars, repoVars, uiVars, lastCall, invalidated>>

PaymentsOf(id) ==
  (IF id \in DOMAIN store THEN Len(readOrderById(store, id).paymentHistory) ELSE 0)
  + Cardinality({j \in DOMAIN txs : txs[j].op = "updateOrderPayment" /\ txs[j].id = id})

\* updateOrderPayment(id, paymentUpdate) up to the first suspension; the
\* caller computed balance and status from the order it holds
Tx_updateOrderPayment(id, advance) ==
  LET total == IF id \in DOMAIN store THEN readOrderById(store, id).priceTotal ELSE 0
  IN /\ Len(txs) < MaxTxs
     /\ PaymentsOf(id) < MaxPayments
     /\ txs' = Append(txs, NewTx("updateOrderPayment", "readwrite", id,
                   [advancePaid |-> advance,
                    balanceAmount |-> calculateBalance(total, advance),
                    paymentStatus |-> derivePaymentStatus(total, advance),
                    paymentMethod |-> "Cash",
                    historyEntry |-> HistoryEntry("set-advance", advance, advance,
                                                  "Cash", now)]))
     /\ UNCHANGED <<callVars, repoVars, uiVars, lastCall, invalidated>>

\* the query function of useSingleOrder after an invalidation:
\* readOrderById(id) up to its suspension
Tx_readOrderById ==
  /\ viewOrder # NoView
  /\ invalidated
  /\ Len(txs) < MaxTxs
  /\ \A j \in DOMAIN txs : txs[j].op # "readOrderById"
  /\ txs' = Append(txs, NewTx("readOrderById", "readonly", viewOrder.id, NoRecord))
  /\ UNCHANGED <<callVars, repoVars, uiVars, lastCall, invalidated>>

\* the onsuccess of store.get(id)
Tx_get(i) ==
  /\ i \in DOMAIN txs
  /\ TxCanRun(i)
  /\ txs[i].pc = "get"
  /\ LET t == txs[i]
     IN IF t.op = "readOrderById"
        THEN /\ viewOrder' = IF viewOrder # NoView /\ viewOrder.id = t.id
                             THEN readOrderById(store, t.id) ELSE viewOrder
             /\ invalidated' = FALSE
             /\ txs' = RemoveAt(txs, i)
             /\ UNCHANGED <<callVars, repoVars, screen, lastCall>>
        ELSE IF t.id \notin DOMAIN store
        THEN /\ lastCall' = Rejects(t.op, "Order not found")
             /\ txs' = RemoveAt(txs, i)
             /\ UNCHANGED <<callVars, repoVars, uiVars, invalidated>>
        ELSE /\ txs' = [txs EXCEPT ![i] = [t EXCEPT !.pc = "put",
                                                    !.existing = store[t.id]]]
             /\ UNCHANGED <<callVars, repoVars, uiVars, lastCall, invalidated>>

\* store.put(updatedOrder) and its onsuccess
Tx_put(i) ==
  /\ i \in DOMAIN txs
  /\ TxCanRun(i)
  /\ txs[i].pc = "put"
  /\ LET t == txs[i]
         updatedOrder ==
           IF t.op = "updateOrder"
           THEN updateOrderMerge(t.existing, t.id, t.arg, now)
           ELSE updateOrderPayment([store EXCEPT ![t.id] = t.existing], t.id, t.arg)[t.id]
     IN /\ store' = [store EXCEPT ![t.id] = updatedOrder]
        /\ lastWrite' = [lastWrite EXCEPT ![t.id] =
                           IF t.op = "updateOrder" THEN "edit" ELSE "payment"]
        /\ lastCall' = Resolves(t.op)
  /\ invalidated' = (invalidated \/ (handleDbChange(lastCall') /\ viewOrder # NoView))
  /\ txs' = RemoveAt(txs, i)
  /\ UNCHANGED <<callVars, uiVars>>

\* an administrator's session, online, over one earlier order
TxInit == InitWith(StoreOf(1)) /\ role = "ADMIN" /\ isOnline

TxNext ==
  \/ \E id \in CallIds, u \in TxUpdates : Tx_updateOrder(id, u)
  \/ \E id \in CallIds, a \in {1, 2} : Tx_updateOrderPayment(id, a)
  \/ Tx_readOrderById
  \/ \E i \in 1..MaxTxs : Tx_get(i)
  \/ \E i \in 1..MaxTxs : Tx_put(i)
  \/ \E id \in DOMAIN store : Navigate("details", id)
  \/ Navigate("dashboard", 1)

TxSpec == TxInit /\ [][TxNext]_vars

\* ------------------------------------------------------------- initDb
sessionVars == <<pass, remoteVars, lastSync, uiVars, now, envVars, hookVars,
                 manualIsSyncing, lastStart, lastCall, lastResult, invalidated, txs>>

\* request.onupgradeneeded: the object store exists from version 1 on (and
\* is created empty before that); every pending step places its getAll
initDb_onupgradeneeded ==
  /\ upgrade.phase = "closed"
  /\ upgrade.oldVersion < DB_VERSION
  /\ upgrade' = [upgrade EXCEPT !.phase = "upgrading",
                                !.requests = UpgradeSteps(upgrade.oldVersion)]
  /\ UNCHANGED <<repoVars, sessionVars>>

\* IndexedDB runs the requests of a transaction in the order they were
\* placed.  A getAll reads the store as it is when the request runs; its
\* onsuccess places the puts of its step behind every request placed so far.
Upgrade_getAll ==
  /\ upgrade.phase = "upgrading"
  /\ upgrade.requests # <<>>
  /\ Head(upgrade.requests).kind = "getAll"
  /\ upgrade' = [upgrade EXCEPT !.requests =
                   Tail(@) \o UpgradePuts(Head(upgrade.requests).step, store)]
  /\ UNCHANGED <<repoVars, sessionVars>>

Upgrade_put ==
  /\ upgrade.phase = "upgrading"
  /\ upgrade.requests # <<>>
  /\ Head(upgrade.requests).kind = "put"
  /\ LET order == Head(upgrade.requests).order
     IN /\ store' = [store EXCEPT ![order.id] = order]
        /\ lastWrite' = [lastWrite EXCEPT ![order.id] = "upgrade"]
  /\ upgrade' = [upgrade EXCEPT !.requests = Tail(@)]
  /\ UNCHANGED sessionVars

\* request.onsuccess: after the versionchange transaction has completed, or
\* at once when the database is at DB_VERSION already
initDb_onsuccess ==
  /\ \/ upgrade.phase = "upgrading" /\ upgrade.requests = <<>>
     \/ upgrade.phase = "closed" /\ upgrade.oldVersion = DB_VERSION
  /\ upgrade' = [upgrade EXCEPT !.phase = "open"]
  /\ UNCHANGED <<repoVars, sessionVars>>

\* the record an installation at version 1 stored
LegacyOrder(id) ==
  [id |-> id, orderId |-> OrderCode(id), customerName |-> "Asha",
   bookingDate |-> EPOCH_MS, deliveryDate |-> EPOCH_MS, measurements |-> "m",
   productDetails |-> "p", images |-> <<>>, status |-> "Pending",
   createdAt |-> EPOCH_MS]

\* the pricing fields of version 2 as earlier code may have left them:
\* consistent, stale (balance and status not matching the amounts, a method
\* outside the list), negative, non-numeric
LegacyPricing ==
  {[priceTotal |-> 2, advancePaid |-> 1, balanceAmount |-> 1,
    paymentStatus |-> "Partial", paymentMethod |-> "UPI", notes |-> "n"],
   [priceTotal |-> 2, advancePaid |-> 2, balanceAmount |-> 2,
    paymentStatus |-> "Unpaid", paymentMethod |-> "Cheque", notes |-> ""],
   [priceTotal |-> -1, advancePaid |-> -2, balanceAmount |-> -1,
    paymentStatus |-> "Paid", paymentMethod |-> "Cash", notes |-> ""],
   [priceTotal |-> NotANumber, advancePaid |-> 1, balanceAmount |-> NotANumber,
    paymentStatus |-> "Partial", paymentMethod |-> "Card", notes |-> ""]}

LegacyPaid == [priceTotal |-> 2, advancePaid |-> 1, balanceAmount |-> 1,
               paymentStatus |-> "Partial", paymentMethod |-> "UPI", notes |-> "n"]

LegacySyncMarks ==
  {[remoteId |-> Null, lastSyncedAt |-> Null, syncState |-> "pending",
    imageStorageUrls |-> <<>>],
   [remoteId |-> 1, lastSyncedAt |-> EPOCH_MS, syncState |-> "synced",
    imageStorageUrls |-> <<>>]}

\* the stores an installation at oldVersion can hold
LegacyStores(oldVersion) ==
  CASE oldVersion = 0 -> {<<>>}
    [] oldVersion = 1 -> {<<LegacyOrder(1)>>, <<LegacyOrder(1), LegacyOrder(2)>>}
    [] oldVersion = 2 -> {<<Spread(LegacyOrder(1), pr)>> : pr \in LegacyPricing}
    [] oldVersion = 3 ->
         {<<Spread(Spread(LegacyOrder(1), LegacyPaid), [paymentHistory |-> h])>> :
            h \in {<<>>, <<HistoryEntry("set-advance", 1, 1, "UPI", EPOCH_MS)>>}}
    [] oldVersion = 4 ->
         {<<Spread(Spread(Spread(LegacyOrder(1), LegacyPaid),
                          [paymentHistory |-> <<>>]), sm)>> : sm \in LegacySyncMarks}
    [] OTHER -> {StoreOf(1)}

\* the application opening a database an earlier version left behind
MigrateInit ==
  \E oldVersion \in 0..DB_VERSION :
    \E db \in LegacyStores(oldVersion) :
      /\ AppInit(db)
      /\ upgrade = Closed(oldVersion, db)

\* App renders the screens once initDb has resolved
MigrateNext ==
  \/ initDb_onupgradeneeded
  \/ Upgrade_getAll
  \/ Upgrade_put
  \/ initDb_onsuccess
  \/ upgrade.phase = "open" /\ \E id \in DOMAIN store : Navigate("details", id)

MigrateSpec == MigrateInit /\ [][MigrateNext]_vars

\* ================================================================ claims
UploadPcs == {"image", "saveUrls", "record", "writeback"}

PassesInFlight == {p \in Slots : InFlight(p)}

\* the entries of an error list about the order with code k
EntriesFor(errors, k) == {j \in DOMAIN errors : errors[j].code = k}

\* ---------------------------------------------------------------- C1
\* C1: at most one remote document is ever created for a local order: no
\* two documents created by addDoc belong to the same local order.
C1_AtMostOneRemoteCreate ==
  \A d1 \in remoteDocs, d2 \in remoteDocs :
    d1.localId = d2.localId => d1.docId = d2.docId

\* ---------------------------------------------------------------- C2
\* C2: when the write-back that follows a successful remote write is done,
\* the stored order, read back through the repository, carries the returned
\* remote identifier, a non-null lastSyncedAt and sync state 'synced', and
\* the pass's uploaded counter has grown by one.
C2_WriteBackMarksSynced ==
  [][\A p \in Slots :
       WriteBack(p) =>
         LET after == readOrderById(store', CurrentOrder(p).id)
         IN /\ after.remoteId = pass[p].rid
            /\ after.lastSyncedAt # Null
            /\ after.syncState = "synced"
            /\ pass'[p].uploaded = pass[p].uploaded + 1]_vars

\* ---------------------------------------------------------------- C3
\* C3: after an ADMIN pass that returned without errors, and with no local
\* edit since, every order carries a remoteId and is no longer pending, so a
\* second such pass finds no eligible order and uploads (creates) nothing.
C3_SecondPassFindsNothing ==
  /\ (role = "ADMIN" /\ lastSync.lastSyncResult = "success" /\ PassesInFlight = {}) =>
       \A id \in DOMAIN store :
         LET order == readOrderById(store, id)
         IN order.remoteId # Null /\ order.syncState # "pending"
  /\ \A p \in Slots :
       (/\ pass[p].pc = "finish" /\ pass[p].role = "ADMIN" /\ pass[p].errors = <<>>
        /\ lastSync.lastSyncResult = "success" /\ PassesInFlight = {p}) =>
         pass[p].uploaded = 0

\* ---------------------------------------------------------------- C4
\* C4: an order reads back 'synced' only if the write-back after a remote
\* upload wrote it last; after a create, an edit, a payment update or the
\* image-URL save it reads back 'pending'.
C4_SyncedOnlyAfterWriteBack ==
  \A id \in DOMAIN store :
    LET order == readOrderById(store, id)
    IN /\ order.syncState = "synced" => lastWrite[id] = "writeback"
       /\ lastWrite[id] \in {"create", "edit", "payment", "urls"} =>
            order.syncState = "pending"

\* an order that a pass has written back and a screen has edited since
C4_Witness ==
  \E id \in DOMAIN store :
    /\ lastWrite[id] \in {"edit", "payment"}
    /\ readOrderById(store, id).remoteId # Null
    /\ readOrderById(store, id).syncState = "pending"

\* ---------------------------------------------------------------- C5
\* C5: at most one execution of syncOrders is in flight at any time.
C5_AtMostOnePassInFlight == Cardinality(PassesInFlight) <= 1

\* ---------------------------------------------------------------- C6
\* C6: a pass over the batch in which exactly one order k fails, in an image
\* upload, returns with the other orders uploaded and with an error list of
\* exactly one entry, which names k's order code.
C6_OneErrorPerFailedOrder ==
  \A p \in Slots :
    LET errors == pass[p].errors
        failed == {errors[j].code : j \in {n \in DOMAIN errors : errors[n].kind = "image"}}
    IN (/\ pass[p].pc = "finish"
        /\ Cardinality(failed) = 1
        /\ \A j \in DOMAIN errors : errors[j].code \in failed) =>
         /\ pass[p].uploaded = BatchSize - 1
         /\ Len(errors) = 1

\* ---------------------------------------------------------------- C7
\* C7: the payload a STAFF pass hands to the remote document store has none
\* of the keys priceTotal, advancePaid, balanceAmount, paymentStatus,
\* paymentMethod.
C7_StaffPayloadHasNoFinancialKeys ==
  sent.role = "STAFF" => sent.keys \cap FinancialKeys = {}

\* a STAFF pass has transmitted an order whose local record holds the
\* financial fields
C7_Witness ==
  /\ sent.role = "STAFF"
  /\ "orderId" \in sent.keys
  /\ \E id \in DOMAIN store : FinancialKeys \subseteq DOMAIN store[id]

\* ---------------------------------------------------------------- C8
\* the orders a step of pass p moves past at the head of the loop without
\* awaiting: none when the step is not p's, stays with its order, or is the
\* failing read
C8_Scanned(p) ==
  LET rest == IF pass[p].pc = "read" THEN readAllOrders(store)
              ELSE Tail(pass[p].localOrders)
      left == pass'[p].localOrders
      stays == pass[p].pc # "read" /\ Len(left) = Len(pass[p].localOrders)
      fatal == \E j \in DOMAIN pass'[p].errors : pass'[p].errors[j].kind = "fatal"
  IN IF pass'[p] = pass[p] \/ pass[p].pc \notin ({"read"} \cup UploadPcs) \/ stays \/ fatal
     THEN <<>>
     ELSE SubSeq(rest, 1, Len(rest) - Len(left))

\* C8: in a STAFF pass an eligible order that carries a remote identifier is
\* skipped: the pass never awaits an image upload, a URL save, a record
\* upload or a write-back for it; the step that moves past it records exactly
\* one error for it, of the skip kind, leaves its stored record and the remote
\* store as they were, and leaves the pass running on the orders that follow
\* (returning only when none is left).
C8_StaffSkipsOrdersWithRemoteId ==
  [][\A p \in Slots :
       /\ (pass'[p].role = "STAFF" /\ pass'[p].pc \in UploadPcs) =>
            Head(pass'[p].localOrders).remoteId = Null
       /\ pass[p].role = "STAFF" =>
            \A n \in DOMAIN C8_Scanned(p) :
              LET order == C8_Scanned(p)[n]
                  entries == EntriesFor(pass'[p].errors, order.orderId)
              IN (Eligible(order) /\ order.remoteId # Null) =>
                   /\ Cardinality(entries) = 1
                   /\ \A j \in entries : pass'[p].errors[j].kind = "skip"
                   /\ EntriesFor(pass[p].errors, order.orderId) = {}
                   /\ store'[order.id] = store[order.id]
                   /\ remoteDocs' = remoteDocs /\ sent' = sent
                   /\ pass'[p].pc \in {"image", "saveUrls", "record", "finish"}
                   /\ pass'[p].pc = "finish" <=> pass'[p].localOrders = <<>>]_vars

\* a STAFF pass has skipped an order and awaits an image upload of the next
C8_Witness ==
  \E p \in Slots :
    /\ pass[p].role = "STAFF"
    /\ pass[p].pc = "image"
    /\ \E j \in DOMAIN pass[p].errors : pass[p].errors[j].kind = "skip"

\* ---------------------------------------------------------------- C9
\* C9: when an image upload of an order fails, the URL of every image of that
\* order uploaded earlier in the same pass is in the stored order's
\* imageStorageUrls.
C9_PartialUrlsPersisted ==
  [][\A p \in Slots :
       ImageUploadFails(p) =>
         LET order == CurrentOrder(p)
             stored == readOrderById(store', order.id).imageStorageUrls
         IN \A i \in 1..(pass[p].i - 1) :
              (UrlAt(order.imageStorageUrls, i) = Null /\ UrlAt(pass[p].urls, i) # Null) =>
                UrlAt(stored, i) = UrlAt(pass[p].urls, i)]_vars

\* ---------------------------------------------------------------- C10
\* C10: an order whose image or record upload failed in the pass that
\* returned last is attempted again: when an ADMIN pass after it runs to its
\* end without any error, it has uploaded the order, and the order, written
\* last by that write-back, reads back 'synced'.
C10_RetryReachesSynced ==
  \A p \in Slots, id \in DOMAIN store :
    LET failures == lastSync.lastSyncMessage.errors
        order == readOrderById(store, id)
    IN (/\ lastSync.lastSyncResult = "error"
        /\ \E j \in EntriesFor(failures, order.orderId) :
             failures[j].kind \in {"image", "sync"}
        /\ pass[p].pc = "finish" /\ pass[p].role = "ADMIN" /\ pass[p].errors = <<>>
        /\ PassesInFlight = {p}
        /\ lastWrite[id] = "writeback") =>
         /\ pass[p].uploaded >= 1
         /\ order.syncState = "synced"


\* ---------------------------------------------------------------- C11
\* a step in which syncOrders is called
PassStarts == \E p \in Slots : pass[p].pc = "idle" /\ pass'[p].pc = "read"

\* C11: any two starts of a sync pass, whatever triggered them, are at least
\* the throttle window (5 seconds) apart.
C11_StartsSeparatedByThrottle ==
  [][(PassStarts /\ lastStart # 0) => now - lastStart >= THROTTLE_MS]_vars

\* ---------------------------------------------------------------- C12
\* C12: the initial trigger starts a pass exactly once in a session: when
\* configured, authenticated and online first hold together the trigger is
\* armed; an armed trigger ends only by starting a pass; and once it has been
\* armed it is never armed again, however the signals change.
C12_InitialTriggerExactlyOnce ==
  [][/\ (~hasAttemptedInitialSync /\ isConfigured' /\ isAuthenticated' /\ isOnline') =>
          timer'.armed
     /\ (timer.armed /\ ~timer'.armed) => PassStarts
     /\ (hasAttemptedInitialSync /\ ~timer.armed) => ~timer'.armed]_vars

\* ---------------------------------------------------------------- C13
\* a step in which the device is seen to come back online while the backend
\* is configured and the user signed in
Reconnects == ~isOnline /\ isOnline' /\ isConfigured' /\ isAuthenticated'

\* C13 (as claimed): every offline-to-online transition, with the backend
\* configured and the user authenticated, starts a sync pass.
C13_ReconnectStartsPass ==
  [][Reconnects => PassStarts]_vars

\* C13 (amended): such a transition starts a sync pass exactly when the hook
\* is not already syncing and its last attempt is at least the throttle
\* window old; otherwise the reconnect starts nothing.
C13_ReconnectStartsPassUnlessThrottled ==
  [][Reconnects =>
       (PassStarts <=> (~isSyncing /\ now - lastSyncAttempt >= THROTTLE_MS))]_vars

\* a pass the hook started on a reconnect (the initial timer is still armed,
\* so it is not the timer's) after an earlier pass has returned
C13_Witness ==
  /\ timer.armed
  /\ lastSync.lastSyncResult # "null"
  /\ \E p \in Slots : pass[p].pc = "read" /\ pass[p].owner = "hook"

\* ---------------------------------------------------------------- C14
\* C14: every step that changes an order's advancePaid or priceTotal
\* lengthens its paymentHistory by exactly one entry whose
\* resultingAdvancePaid is the new advancePaid; every other step leaves the
\* length of the history as it was; hence the last entry of a non-empty
\* history always carries the current advancePaid.
C14_FinancialChangeAppendsHistory ==
  /\ [](\A id \in DOMAIN store :
          LET order == readOrderById(store, id)
              n == Len(order.paymentHistory)
          IN n > 0 => order.paymentHistory[n].resultingAdvancePaid = order.advancePaid)
  /\ [][\A id \in DOMAIN store :
          LET before == readOrderById(store, id)
              after == readOrderById(store', id)
              n == Len(after.paymentHistory)
          IN IF after.advancePaid # before.advancePaid \/ after.priceTotal # before.priceTotal
             THEN /\ n = Len(before.paymentHistory) + 1
                  /\ after.paymentHistory[n].resultingAdvancePaid = after.advancePaid
             ELSE n = Len(before.paymentHistory)]_vars

\* ---------------------------------------------------------------- C15
IsPrefix(s, t) == Len(s) <= Len(t) /\ \A i \in 1..Len(s) : s[i] = t[i]

\* C15: paymentHistory is append-only: in every step the history stored
\* before is a prefix of the history stored after.
C15_HistoryAppendOnly ==
  [][\A id \in DOMAIN store :
       IsPrefix(readOrderById(store, id).paymentHistory,
                readOrderById(store', id).paymentHistory)]_vars

\* ---------------------------------------------------------------- C16
\* C16: in every stored state of every order, advancePaid <= priceTotal.
C16_PaidAtMostTotal ==
  \A id \in DOMAIN store :
    readOrderById(store, id).advancePaid <= readOrderById(store, id).priceTotal

\* ---------------------------------------------------------------- C17
\* C17: createOrder called with advancePaid > priceTotal, or with a customer
\* name that is empty after trimming, rejects with an error, stores no
\* record and dispatches no change notification.
C17_InvalidCreateRejected ==
  [][\A n \in Names, t \in EditTotals, a \in EditPaids :
       (Repo_createOrder(n, t, a) /\ (a > t \/ Trim(n) = "")) =>
         /\ store' = store
         /\ lastCall'.op = "createOrder"
         /\ lastCall'.error # "none"
         /\ ~lastCall'.event]_vars

\* ---------------------------------------------------------------- C18
\* C18: updateOrder and updateOrderPayment called with an identifier that is
\* not in the store reject with 'Order not found', leave every stored record
\* as it was, create no record, and dispatch no change notification.
C18_UpdateOfMissingIdRejected ==
  [][/\ \A id \in CallIds \ DOMAIN store, u \in RepoUpdates :
          Repo_updateOrder(id, u) =>
            /\ store' = store
            /\ lastCall'.op = "updateOrder"
            /\ lastCall'.error = "Order not found"
            /\ ~lastCall'.event
     /\ \A id \in CallIds \ DOMAIN store, md \in EditModes, a \in EditPaids :
          Repo_updateOrderPayment(id, md, a) =>
            /\ store' = store
            /\ lastCall'.op = "updateOrderPayment"
            /\ lastCall'.error = "Order not found"
            /\ ~lastCall'.event]_vars

\* a call with an absent identifier has been rejected while the store holds
\* an order
C18_Witness ==
  /\ store # <<>>
  /\ lastCall.error = "Order not found"

\* ---------------------------------------------------------------- C19
\* C19: a step of the repository sets an order's deliveredAt to the current
\* time exactly when it moves the stored status to 'Delivered' from another
\* status; every other step leaves the stored deliveredAt as it was, also
\* an update that moves the status away from 'Delivered' or carries its own
\* deliveredAt; so a deliveredAt that is not null never becomes null.
C19_DeliveredAtStampedOnTransition ==
  [][\A id \in DOMAIN store :
       /\ store'[id].deliveredAt =
            IF store'[id].status = "Delivered" /\ store[id].status # "Delivered"
            THEN now
            ELSE store[id].deliveredAt
       /\ store[id].deliveredAt # Null => store'[id].deliveredAt # Null]_vars

\* an order that was delivered and then moved back to 'Pending' by an update
\* carrying a null deliveredAt, at a later time than its stamp
C19_Witness ==
  \E id \in DOMAIN store :
    /\ store[id].status = "Pending"
    /\ store[id].deliveredAt # Null
    /\ store[id].deliveredAt < now
    /\ lastWrite[id] = "edit"

\* ---------------------------------------------------------------- C20
\* C20: over the life of an order the status moves from 'Pending' to
\* 'Delivered' at most once and deliveredAt is stamped at most once: once
\* deliveredAt is set, no step moves the status to 'Delivered' again and no
\* step changes deliveredAt.
C20_DeliveredAtMostOnce ==
  [][\A id \in DOMAIN store :
       store[id].deliveredAt # Null =>
         /\ ~(store[id].status # "Delivered" /\ store'[id].status = "Delivered")
         /\ store'[id].deliveredAt = store[id].deliveredAt]_vars

\* ---------------------------------------------------------------- C21
FieldIs(o, k, v) == Has(o, k) /\ o[k] = v

\* C21: after the store was opened at version 5 over a database at version
\* 1, every stored record has the defaults of all four migration steps:
\* priceTotal 0, advancePaid 0, paymentStatus 'Unpaid', paymentHistory [],
\* syncStatus 'pending', cloudId null.
C21_AllStepDefaultsStored ==
  (upgrade.phase = "open" /\ upgrade.oldVersion = 1) =>
    \A id \in DOMAIN store :
      /\ FieldIs(store[id], "priceTotal", 0)
      /\ FieldIs(store[id], "advancePaid", 0)
      /\ FieldIs(store[id], "paymentStatus", "Unpaid")
      /\ FieldIs(store[id], "paymentHistory", <<>>)
      /\ FieldIs(store[id], "syncStatus", "pending")
      /\ FieldIs(store[id], "cloudId", Null)

\* ---------------------------------------------------------------- C22
\* the value a migration step assigns to an absent field
StepDefaults ==
  [priceTotal |-> 0, advancePaid |-> 0, balanceAmount |-> 0,
   paymentStatus |-> "Unpaid", paymentMethod |-> "Cash", notes |-> "",
   paymentHistory |-> <<>>, remoteId |-> Null, lastSyncedAt |-> Null,
   syncState |-> "pending", imageStorageUrls |-> <<>>, cloudId |-> Null,
   syncStatus |-> "pending"]

C23_Consistent(o) ==
  /\ o.priceTotal >= 0
  /\ o.advancePaid >= 0
  /\ o.balanceAmount = Max(0, o.priceTotal - o.advancePaid)
  /\ o.paymentStatus = (IF o.priceTotal = 0 \/ o.advancePaid = 0 THEN "Unpaid"
                        ELSE IF o.advancePaid >= o.priceTotal THEN "Paid"
                        ELSE "Partial")
  /\ o.balanceAmount = calculateBalance(o.priceTotal, o.advancePaid)
  /\ o.paymentStatus = derivePaymentStatus(o.priceTotal, o.advancePaid)

\* C23: every order readAllOrders or readOrderById returns has amounts
\* >= 0, balanceAmount = max(0, priceTotal - advancePaid) and the
\* paymentStatus of the rule, whatever balance and status were stored; the
\* rule agrees with calculateBalance and derivePaymentStatus.
C23_ReadsAreConsistent ==
  /\ \A id \in DOMAIN store :
       /\ C23_Consistent(readOrderById(store, id))
       /\ C23_Consistent(readAllOrders(store)[id])
  /\ viewOrder # NoView => C23_Consistent(viewOrder)

\* the details screen holds an order read from a record that stores
\* 'Unpaid' and balance 2 for total 2, paid 2: it is returned 'Paid', 0
C23_Witness ==
  /\ upgrade.phase = "open"
  /\ viewOrder # NoView
  /\ LET raw == store[viewOrder.id]
     IN /\ FieldIs(raw, "paymentStatus", "Unpaid")
        /\ FieldIs(raw, "balanceAmount", 2)
        /\ viewOrder.paymentStatus = "Paid"
        /\ viewOrder.balanceAmount = 0

\* ---------------------------------------------------------------- C24
\* C24: normalizeOrder is idempotent: normalizing a normalized record
\* changes no field, for records with missing, negative, non-numeric or
\* stale fields as for any other stored record.
C24_NormalizeIdempotent ==
  \A id \in DOMAIN store :
    normalizeOrder(normalizeOrder(store[id])) = normalizeOrder(store[id])

\* the details screen holds the normalized form of a record with negative
\* amounts; normalizing it again gives the same order
C24_Witness ==
  /\ viewOrder # NoView
  /\ FieldIs(store[viewOrder.id], "priceTotal", -1)
  /\ viewOrder # store[viewOrder.id]
  /\ viewOrder.priceTotal = 0
  /\ normalizeOrder(viewOrder) = viewOrder

\* ---------------------------------------------------------------- C25
\* C25: every createOrder, updateOrder and updateOrderPayment that resolves
\* (the write-backs of a sync pass included) has dispatched 'db-change' for
\* the store 'orders', and a mounted subscriber re-reads after it: an order
\* on screen with no refetch pending is the stored record as it reads now.
C25_WritesNotifySubscribers ==
  [][/\ store' # store => (lastCall'.error = "none" /\ handleDbChange(lastCall'))
     /\ (lastCall'.op # "none" /\ lastCall'.error = "none") => handleDbChange(lastCall')
     /\ (viewOrder' # NoView /\ ~invalidated') =>
          viewOrder' = readOrderById(store', viewOrder'.id)
     /\ RefetchView => viewOrder' = readOrderById(store, viewOrder.id)]_vars

\* the details or edit screen shows the record a write-back of a pass
\* stored, after the refetch its notification caused
C25_Witness ==
  /\ viewOrder # NoView
  /\ ~invalidated
  /\ lastWrite[viewOrder.id] = "writeback"
  /\ handleDbChange(lastCall)
  /\ viewOrder.remoteId # Null
  /\ viewOrder = readOrderById(store, viewOrder.id)

WellFormed(image) == image.mime /\ image.payload = "valid"

\* C27: decoding a malformed local image (no MIME marker, or a payload that
\* is not valid base64) fails instead of returning a blob, so a pass never
\* waits for the upload of one and never stores a URL for one; the failure
\* is recorded for the order that holds the image only.
C27_MalformedImageNotDecoded ==
  /\ \A id \in DOMAIN store :
       \A i \in DOMAIN store[id].images :
         ~WellFormed(store[id].images[i])
           => UrlAt(readOrderById(store, id).imageStorageUrls, i) = Null
  /\ \A p \in Slots :
       /\ pass[p].pc = "image"
            => WellFormed(CurrentOrder(p).images[pass[p].i])
       /\ \A k \in DOMAIN pass[p].errors :
            pass[p].errors[k].kind = "image" =>
              \E id \in DOMAIN store :
                /\ store[id].orderId = pass[p].errors[k].code
                /\ pass[p].errors[k].img \in DOMAIN store[id].images

\* ---------------------------------------------------------------- C28
\* the fields a call of updateOrder or updateOrderPayment assigns itself
C28_Assigned(t) ==
  IF t.op = "updateOrder"
  THEN (DOMAIN t.arg) \cup {"id", "deliveredAt", "syncStatus", "syncState"}
  ELSE {"advancePaid", "balanceAmount", "paymentStatus", "paymentMethod",
        "paymentHistory", "id", "syncStatus", "syncState"}

\* C28: updateOrder and updateOrderPayment read and write inside one
\* transaction, so for calls on the same order interleaved at their
\* suspension points no update is lost: the record a call writes is the
\* record the store holds at that moment with the call's own changes
\* applied (every other field, and every earlier history entry, is kept);
\* and a read returns a record as some call wrote it.
C28_NoLostUpdate ==
  [][\A i \in DOMAIN txs :
       /\ Tx_put(i) =>
            LET t == txs[i]
                cur == store[t.id]
                new == store'[t.id]
            IN /\ \A k \in (DOMAIN cur) \ C28_Assigned(t) : FieldIs(new, k, cur[k])
               /\ t.op = "updateOrder" =>
                    \A k \in (DOMAIN t.arg) \ {"deliveredAt", "syncStatus", "syncState"} :
                      FieldIs(new, k, t.arg[k])
               /\ t.op = "updateOrderPayment" =>
                    /\ new.advancePaid = t.arg.advancePaid
                    /\ new.paymentHistory =
                         Append(readOrderById(store, t.id).paymentHistory,
                                t.arg.historyEntry)
       /\ (Tx_get(i) /\ txs[i].op = "readOrderById" /\ viewOrder # NoView
              /\ viewOrder.id = txs[i].id) =>
            /\ viewOrder' = readOrderById(store, txs[i].id)
            /\ \A j \in DOMAIN txs : txs[j].pc # "put"]_vars

\* a payment update between its get and its put, read after an earlier
\* updateOrder was applied, with another updateOrder on the same order
\* waiting behind it
C28_Witness ==
  /\ Len(txs) >= 2
  /\ txs[1].op = "updateOrderPayment"
  /\ txs[1].pc = "put"
  /\ txs[1].existing.customerName = "Bina"
  /\ txs[2].op = "updateOrder"
  /\ txs[2].id = txs[1].id
  /\ txs[2].pc = "get"

\* ---------------------------------------------------------------- C29
SyncMetadataKeys ==
  {"imageStorageUrls", "remoteId", "lastSyncedAt", "syncState", "syncStatus"}

\* C29: the two local write-backs of a pass (imageStorageUrls, then
\* remoteId and lastSyncedAt) change sync-metadata fields only: every
\* business and financial field and the payment history keep the value the
\* store held just before, also when the user changed them after the pass
\* had read its snapshot; and the order reads as pending after the write.
C29_WriteBackKeepsEdits ==
  [][\A p \in Slots :
       (pass[p].pc \in {"saveUrls", "writeback"} /\ pass'[p] # pass[p]) =>
         /\ DOMAIN store' = DOMAIN store
         /\ \A id \in DOMAIN store :
              \A k \in (DOMAIN store[id]) \ SyncMetadataKeys :
                FieldIs(store'[id], k, store[id][k])
         /\ lastCall'.error = "none" =>
              LET after == readOrderById(store', CurrentOrder(p).id)
              IN after.syncState = "pending" /\ after.syncStatus = "pending"]_vars

\* a pass has stored the image URLs of an order whose advance the user
\* changed after the pass had read it: the store still has the new advance
C29_Witness ==
  \E p \in Slots :
    /\ pass[p].pc = "record"
    /\ LET order == CurrentOrder(p)
       IN /\ lastWrite[order.id] = "urls"
          /\ store[order.id].imageStorageUrls = pass[p].urls
          /\ store[order.id].advancePaid # order.advancePaid
          /\ Len(store[order.id].paymentHistory) > Len(order.paymentHistory)

\* ---------------------------------------------------------------- C30
\* C30: once a remote URL is stored at index i of an order's
\* imageStorageUrls, no later step (edit-screen update, payment update,
\* another pass) removes or replaces it.
C30_StoredUrlsKept ==
  [][\A id \in DOMAIN store :
       \A i \in 1..MaxImages :
         LET before == UrlAt(readOrderById(store, id).imageStorageUrls, i)
         IN before # Null =>
              UrlAt(readOrderById(store', id).imageStorageUrls, i) = before]_vars

====
